---- MODULE Spec2Model ----
(***************************************************************************)
(* Model of the MCP servers app.                                           *)
(*                                                                         *)
(*   - the unified endpoint POST /mcp (Streamable HTTP, one McpServer per  *)
(*     request, ten tools registered with zod input/output schemas);       *)
(*   - the three SSE servers /context7, /perplexity, /brightdata and their *)
(*     CallToolRequestSchema handlers.                                     *)
(*                                                                         *)
(* JavaScript values are records tagged with their type in field t, so     *)
(* that a type mismatch is a value the schemas can reject.                 *)
(***************************************************************************)
EXTENDS Integers, Sequences, FiniteSets, TLC

VARIABLES env, scenario, req, servers

vars == <<env, scenario, req, servers>>

(***************************************************************************)
(* Bounds of the model.                                                    *)
(***************************************************************************)
\* number of requests that may be in flight together
NReq == 2
\* longest argument array a client sends to a batch tool
MaxItems == 11

Requests == 1..NReq

(***************************************************************************)
(* JavaScript values.                                                      *)
(***************************************************************************)
Undefined == [t |-> "undefined"]
Str(x) == [t |-> "string", s |-> x]
Num(k) == [t |-> "number", n |-> k]
Arr(xs) == [t |-> "array", items |-> xs]
\* a template literal: the concatenation of its parts
Template(parts) == [t |-> "string", parts |-> parts]

IsString(v) == v.t = "string"
IsNumber(v) == v.t = "number"
IsArray(v) == v.t = "array"
IsUndefined(v) == v.t = "undefined"

\* JavaScript truthiness of the values the model uses: undefined, 0 and ""
\* are falsy
Falsy(v) ==
    \/ v.t = "undefined"
    \/ (v.t = "number" /\ v.n = 0)
    \/ (v.t = "string" /\ "s" \in DOMAIN v /\ v.s = "")

\* the default applied to a missing value only:  v ?? d
OrElseNullish(v, d) == IF IsUndefined(v) THEN d ELSE v

\* the value used as it came, without a default
OrElseNoDefault(v, d) == v

\* the JavaScript expression  v || d
OrElse(v, d) == IF Falsy(v) THEN d ELSE v

\* strings of the model that parse as a URL
UrlStrings == {"https://a.io/x"}

(***************************************************************************)
(* Process configuration: the three credentials.                           *)
(***************************************************************************)
CONTEXT7_API_KEY == "CONTEXT7_API_KEY"
PERPLEXITY_API_KEY == "PERPLEXITY_API_KEY"
BRIGHTDATA_API_TOKEN == "BRIGHTDATA_API_TOKEN"
Credentials == {CONTEXT7_API_KEY, PERPLEXITY_API_KEY, BRIGHTDATA_API_TOKEN}

\* new Error(`${cred} not configured`): the message carries the credential
NotConfigured(cred) == [err |-> "not configured", names |-> cred]

(***************************************************************************)
(* The tool catalog of the unified endpoint.                               *)
(***************************************************************************)
Context7Tools == <<"mcp__context7__resolve-library-id", "mcp__context7__get-library-docs">>

\* every handler closing over the model of the last entry
perplexityModelsLast ==
    [perplexity_search |-> "sonar-reasoning-pro",
     perplexity_ask |-> "sonar-reasoning-pro",
     perplexity_research |-> "sonar-reasoning-pro",
     perplexity_reason |-> "sonar-reasoning-pro"]

perplexityModels ==
    [perplexity_search |-> "sonar",
     perplexity_ask |-> "sonar-pro",
     perplexity_research |-> "sonar-deep-research",
     perplexity_reason |-> "sonar-reasoning-pro"]

\* Object.entries(perplexityModels): insertion order
PerplexityTools == <<"perplexity_search", "perplexity_ask", "perplexity_research", "perplexity_reason">>

BrightDataTools ==
    <<"mcp__brightdata__search_engine", "mcp__brightdata__scrape_as_markdown",
      "mcp__brightdata__scrape_batch", "mcp__brightdata__search_engine_batch">>

\* the forEach over perplexityModels left out: six tools are registered
RegisteredToolsNoResearch == Context7Tools \o BrightDataTools

\* the calls of server.registerTool, in program order
RegisteredTools == Context7Tools \o PerplexityTools \o BrightDataTools

Range(f) == {f[i] : i \in DOMAIN f}

ToolSet == Range(RegisteredTools)

\* the provider group of a registered tool and the credential it reads
GroupOf(name) ==
    IF name \in Range(Context7Tools) THEN "context7"
    ELSE IF name \in Range(PerplexityTools) THEN "perplexity"
    ELSE "brightdata"

CredentialOf(group) ==
    IF group = "context7" THEN CONTEXT7_API_KEY
    ELSE IF group = "perplexity" THEN PERPLEXITY_API_KEY
    ELSE BRIGHTDATA_API_TOKEN

(***************************************************************************)
(* Argument objects.  A property that is not supplied reads as undefined.  *)
(* defined = FALSE is a call whose arguments member is missing.            *)
(***************************************************************************)
NoProps ==
    [defined |-> TRUE,
     libraryName |-> Undefined,
     context7CompatibleLibraryID |-> Undefined,
     topic |-> Undefined,
     tokens |-> Undefined,
     query |-> Undefined,
     engine |-> Undefined,
     url |-> Undefined,
     urls |-> Undefined,
     queries |-> Undefined]

NoArguments == [NoProps EXCEPT !.defined = FALSE]

(***************************************************************************)
(* The zod input schemas of registerTool.                                  *)
(***************************************************************************)
Engines == {"google", "bing", "yandex"}

\* z.enum(['google', 'bing', 'yandex'])
IsEngine(v) == IsString(v) /\ "s" \in DOMAIN v /\ v.s \in Engines

\* z.string().url()
IsUrl(v) == IsString(v) /\ "s" \in DOMAIN v /\ v.s \in UrlStrings

\* .max(10) of urls and of queries
MaxBatchUrls == 10
MaxBatchQueries == 10

\* z.object({ query: z.string(), engine: z.enum([...]).optional() })
IsQueryItem(q) ==
    /\ q.t = "object"
    /\ IsString(q.query)
    /\ (IsUndefined(q.engine) \/ IsEngine(q.engine))

\* the bound of the array off by one
UrlsSchemaMax11(v) ==
    /\ IsArray(v)
    /\ \A i \in DOMAIN v.items : IsUrl(v.items[i])
    /\ Len(v.items) <= MaxBatchUrls + 1

\* z.array(z.string().url()).max(10)
UrlsSchema(v) ==
    /\ IsArray(v)
    /\ \A i \in DOMAIN v.items : IsUrl(v.items[i])
    /\ Len(v.items) <= MaxBatchUrls

\* z.array(z.object({...})).max(10)
QueriesSchema(v) ==
    /\ IsArray(v)
    /\ \A i \in DOMAIN v.items : IsQueryItem(v.items[i])
    /\ Len(v.items) <= MaxBatchQueries

\* inputSchema of each registered tool, applied to the arguments of a call
InputSchema(name, a) ==
    /\ a.defined
    /\ CASE name = "mcp__context7__resolve-library-id" ->
              IsString(a.libraryName)
         [] name = "mcp__context7__get-library-docs" ->
              /\ IsString(a.context7CompatibleLibraryID)
              /\ (IsUndefined(a.topic) \/ IsString(a.topic))
              /\ (IsUndefined(a.tokens) \/ IsNumber(a.tokens))
         [] name \in Range(PerplexityTools) ->
              IsString(a.query)
         [] name = "mcp__brightdata__search_engine" ->
              /\ IsString(a.query)
              /\ (IsUndefined(a.engine) \/ IsEngine(a.engine))
         [] name = "mcp__brightdata__scrape_as_markdown" ->
              IsUrl(a.url)
         [] name = "mcp__brightdata__scrape_batch" ->
              UrlsSchema(a.urls)
         [] name = "mcp__brightdata__search_engine_batch" ->
              QueriesSchema(a.queries)
         [] OTHER -> FALSE

(***************************************************************************)
(* Errors, upstream calls and upstream replies.                            *)
(***************************************************************************)
\* TypeError: Cannot read properties of undefined
TypeErr == [err |-> "TypeError", names |-> ""]
\* new Error(`Unknown tool: ${name}`)
UnknownTool(name) == [err |-> "Unknown tool", names |-> name]
\* the error axios.post rejects with: no response, or a non-2xx status
AxiosError(status) ==
    IF status = "neterr" THEN [err |-> "Network Error", names |-> ""]
    ELSE [err |-> "Request failed with status code", names |-> status]

NoCall == [url |-> "none"]
NoReply == [status |-> "none"]

\* payloads an upstream provider may answer with
LibraryList == Arr(<<Str("/org/project")>>)
ChatCompletion(c) == [t |-> "object", shape |-> "chat", content |-> c]

Replies ==
    {[status |-> "neterr"], [status |-> "http500"]}
        \cup {[status |-> "ok", data |-> d] :
                d \in {LibraryList, ChatCompletion(Str("answer"))}}

\* response.data.choices[0].message.content
HasChoices(d) == d.t = "object" /\ d.shape = "chat"

(***************************************************************************)
(* Serialisation.  JSON.stringify(value, null, indent) is the text of the  *)
(* value at that indentation; a property whose value is undefined is left  *)
(* out of the text.                                                        *)
(***************************************************************************)
Object1(key, val) == [t |-> "object", key |-> key, val |-> val]
EmptyObject == [t |-> "object"]

Stringify(v, indent) ==
    [t |-> "string",
     indent |-> indent,
     json |-> IF v.t = "object" /\ "val" \in DOMAIN v /\ IsUndefined(v.val)
              THEN EmptyObject ELSE v]

(***************************************************************************)
(* Tool handlers of the unified endpoint.  A handler runs to its first     *)
(* await: it throws, returns, or is suspended on one axios.post.           *)
(***************************************************************************)
Throw(error) == [k |-> "throw", error |-> error]
Return(result) == [k |-> "return", result |-> result]
Await(call) == [k |-> "await", call |-> call]

\* return { content: [{ type: 'text', text: JSON.stringify(output, ...) }],
\*          structuredContent: output }
HandlerResult(output, indent) ==
    [content |-> Stringify(output, indent), structuredContent |-> output]

\* the handler without its credential check
HasCredentialUnchecked(cred, e) == TRUE

\* one check of the whole configuration in place of the handler's own
HasAllCredentials(cred, e) == Credentials \subseteq e

\* if (!apiKey) throw ...; the check of every handler
HasCredential(cred, e) == cred \in e

HandlerStart(name, a, e) ==
    LET cred == CredentialOf(GroupOf(name)) IN
    IF ~HasCredential(cred, e) THEN Throw(NotConfigured(cred))
    ELSE CASE name = "mcp__context7__resolve-library-id" ->
                Await([url |-> "https://context7.upstash.io/api/v1/search",
                       body |-> [query |-> a.libraryName],
                       bearer |-> cred])
           [] name = "mcp__context7__get-library-docs" ->
                Await([url |-> "https://context7.upstash.io/api/v1/docs",
                       body |-> [libraryId |-> a.context7CompatibleLibraryID,
                                 topic |-> a.topic,
                                 maxTokens |-> OrElse(a.tokens, Num(5000))],
                       bearer |-> cred])
           [] name \in Range(PerplexityTools) ->
                Await([url |-> "https://api.perplexity.ai/chat/completions",
                       body |-> [model |-> perplexityModels[name],
                                 content |-> a.query],
                       bearer |-> cred])
           [] name = "mcp__brightdata__search_engine" ->
                Return(HandlerResult(
                    Object1("results",
                        Arr(<<Template(<<Str("Searched "),
                                         OrElse(a.engine, Str("google")),
                                         Str(" for: "), a.query>>)>>)), 0))
           [] name = "mcp__brightdata__scrape_as_markdown" ->
                Return(HandlerResult(
                    Object1("markdown",
                        Template(<<Str("Scraped content from "), a.url>>)), 0))
           [] name = "mcp__brightdata__scrape_batch" ->
                Return(HandlerResult(
                    Object1("results",
                        Arr([i \in DOMAIN a.urls.items |->
                               [t |-> "object", url |-> a.urls.items[i],
                                status |-> Str("scraped")]])), 0))
           [] name = "mcp__brightdata__search_engine_batch" ->
                Return(HandlerResult(
                    Object1("results",
                        Arr([i \in DOMAIN a.queries.items |->
                               [t |-> "object",
                                query |-> a.queries.items[i].query,
                                engine |-> OrElse(a.queries.items[i].engine,
                                                  Str("google"))]])), 0))

\* the handler after its await: axios.post resolved or rejected
HandlerResume(name, rep) ==
    IF rep.status # "ok" THEN Throw(AxiosError(rep.status))
    ELSE CASE name = "mcp__context7__resolve-library-id" ->
                Return(HandlerResult(Object1("libraries", rep.data), 2))
           [] name = "mcp__context7__get-library-docs" ->
                Return(HandlerResult(Object1("documentation", rep.data), 2))
           [] name \in Range(PerplexityTools) ->
                IF HasChoices(rep.data)
                THEN Return(HandlerResult(Object1("response", rep.data.content), 0))
                ELSE Throw(TypeErr)

\* outputSchema of each registered tool
OutputSchema(name, output) ==
    CASE name = "mcp__context7__resolve-library-id" -> IsArray(output.val)
      [] name = "mcp__context7__get-library-docs" -> TRUE
      [] name \in Range(PerplexityTools) -> IsString(output.val)
      [] name = "mcp__brightdata__scrape_as_markdown" -> IsString(output.val)
      [] OTHER -> IsArray(output.val)

(***************************************************************************)
(* Protocol responses.                                                     *)
(***************************************************************************)
NoResponse == [kind |-> "none"]

\* a top-level JSON-RPC error
ProtocolError(code, message) == [kind |-> "error", code |-> code, message |-> message]

\* a top-level JSON-RPC error the protocol layer answers with, named by
\* its classification
Rejection(class, message) == [kind |-> "error", class |-> class, message |-> message]

\* a successful JSON-RPC response carrying a CallToolResult
CallToolResult(isError, content, structured) ==
    [kind |-> "result", isError |-> isError, content |-> content,
     structuredContent |-> structured]

\* the code of the catch block of app.post('/mcp')
InternalError == -32603

(***************************************************************************)
(* McpServer: dispatch of one tools/call.  Lookup, then validation of the  *)
(* arguments against the input schema, then the handler; what the handler  *)
(* throws, and a result that does not fit the output schema, become a      *)
(* result marked isError.                                                  *)
(***************************************************************************)
ToolFailure(error) == CallToolResult(TRUE, error, Undefined)

Complete(name, outcome) ==
    IF outcome.k = "throw" THEN ToolFailure(outcome.error)
    ELSE IF OutputSchema(name, outcome.result.structuredContent)
         THEN CallToolResult(FALSE, outcome.result.content,
                             outcome.result.structuredContent)
         ELSE ToolFailure([err |-> "Invalid structured content", names |-> name])

Dispatch(name, a, e) ==
    IF name \notin ToolSet
    THEN [step |-> "rejected", ran |-> FALSE,
          response |-> Rejection("method not found", name)]
    ELSE IF ~InputSchema(name, a)
    THEN [step |-> "rejected", ran |-> FALSE,
          response |-> Rejection("invalid params", name)]
    ELSE LET o == HandlerStart(name, a, e) IN
         IF o.k = "await"
         THEN [step |-> "pending", ran |-> TRUE, call |-> o.call]
         ELSE [step |-> "done", ran |-> TRUE, response |-> Complete(name, o)]

(***************************************************************************)
(* The tools the SSE servers advertise (ListToolsRequestSchema) and the    *)
(* JSON schemas they advertise for the arguments.                          *)
(***************************************************************************)
SseTools(ep) ==
    CASE ep = "context7" -> Range(Context7Tools)
      [] ep = "perplexity" -> Range(PerplexityTools)
      [] ep = "brightdata" -> Range(BrightDataTools)

\* maxItems of urls and of queries
SseMaxItems == 10

Optional(v, ok) == IsUndefined(v) \/ ok

SseInputSchema(name, a) ==
    /\ a.defined
    /\ CASE name = "mcp__context7__resolve-library-id" ->
              IsString(a.libraryName)
         [] name = "mcp__context7__get-library-docs" ->
              /\ IsString(a.context7CompatibleLibraryID)
              /\ Optional(a.topic, IsString(a.topic))
              /\ Optional(a.tokens, IsNumber(a.tokens))
         [] name \in Range(PerplexityTools) ->
              IsString(a.query)
         [] name = "mcp__brightdata__search_engine" ->
              /\ IsString(a.query)
              /\ Optional(a.engine, IsEngine(a.engine))
         [] name = "mcp__brightdata__scrape_as_markdown" ->
              IsString(a.url)
         [] name = "mcp__brightdata__scrape_batch" ->
              /\ IsArray(a.urls)
              /\ \A i \in DOMAIN a.urls.items : IsString(a.urls.items[i])
              /\ Len(a.urls.items) <= SseMaxItems
         [] name = "mcp__brightdata__search_engine_batch" ->
              /\ IsArray(a.queries)
              /\ \A i \in DOMAIN a.queries.items : a.queries.items[i].t = "object"
              /\ Len(a.queries.items) <= SseMaxItems
         [] OTHER -> FALSE

(***************************************************************************)
(* The CallToolRequestSchema handlers of the SSE servers.                  *)
(***************************************************************************)
SseContext7Start(name, a, e) ==
    IF ~HasCredential(CONTEXT7_API_KEY, e) THEN Throw(NotConfigured(CONTEXT7_API_KEY))
    ELSE IF name = "mcp__context7__resolve-library-id"
    THEN IF ~a.defined THEN Throw(TypeErr)
         ELSE Await([url |-> "https://context7.upstash.io/api/v1/search",
                     body |-> [query |-> a.libraryName],
                     bearer |-> CONTEXT7_API_KEY])
    ELSE IF name = "mcp__context7__get-library-docs"
    THEN IF ~a.defined THEN Throw(TypeErr)
         ELSE Await([url |-> "https://context7.upstash.io/api/v1/docs",
                     body |-> [libraryId |-> a.context7CompatibleLibraryID,
                               topic |-> a.topic,
                               maxTokens |-> OrElse(a.tokens, Num(5000))],
                     bearer |-> CONTEXT7_API_KEY])
    ELSE Throw(UnknownTool(name))

modelMap == perplexityModels

\* the handler with the tool-name check before the credential check
SsePerplexityNameFirst(name, a, e) ==
    IF name \notin DOMAIN modelMap THEN Throw(UnknownTool(name))
    ELSE IF ~HasCredential(PERPLEXITY_API_KEY, e) THEN Throw(NotConfigured(PERPLEXITY_API_KEY))
    ELSE IF ~a.defined THEN Throw(TypeErr)
    ELSE Await([url |-> "https://api.perplexity.ai/chat/completions",
                body |-> [model |-> modelMap[name], content |-> a.query],
                bearer |-> PERPLEXITY_API_KEY])

SsePerplexityStart(name, a, e) ==
    IF ~HasCredential(PERPLEXITY_API_KEY, e) THEN Throw(NotConfigured(PERPLEXITY_API_KEY))
    ELSE IF name \notin DOMAIN modelMap THEN Throw(UnknownTool(name))
    ELSE IF ~a.defined THEN Throw(TypeErr)
    ELSE Await([url |-> "https://api.perplexity.ai/chat/completions",
                body |-> [model |-> modelMap[name], content |-> a.query],
                bearer |-> PERPLEXITY_API_KEY])

\* the handler with a check of the tool name after the credential check
SseBrightDataChecksName(name, a, e) ==
    IF ~HasCredential(BRIGHTDATA_API_TOKEN, e) THEN Throw(NotConfigured(BRIGHTDATA_API_TOKEN))
    ELSE IF name \notin Range(BrightDataTools) THEN Throw(UnknownTool(name))
    ELSE Return(Template(<<Str("BrightData tool "), Str(name)>>))

SseBrightDataStart(name, a, e) ==
    IF ~HasCredential(BRIGHTDATA_API_TOKEN, e) THEN Throw(NotConfigured(BRIGHTDATA_API_TOKEN))
    ELSE Return(Template(<<Str("BrightData tool "), Str(name),
                           Str(" would be called with: "),
                           IF a.defined
                           THEN Stringify([t |-> "object", props |-> a], 0)
                           ELSE Undefined>>))

SseStart(ep, name, a, e) ==
    CASE ep = "context7" -> SseContext7Start(name, a, e)
      [] ep = "perplexity" -> SsePerplexityStart(name, a, e)
      [] ep = "brightdata" -> SseBrightDataStart(name, a, e)

SseResume(ep, rep) ==
    IF rep.status # "ok" THEN Throw(AxiosError(rep.status))
    ELSE IF ep = "context7" THEN Return(Stringify(rep.data, 2))
    ELSE IF HasChoices(rep.data) THEN Return(rep.data.content)
    ELSE Throw(TypeErr)

\* the handler without its try/catch: the error leaves the handler
SseCatchEscapes(error) == ProtocolError(InternalError, error)

\* catch (error) { return { content: [... `Error: ${error.message}`], isError: true } }
SseCatch(error) ==
    CallToolResult(TRUE, Template(<<Str("Error: "), error>>), Undefined)

SseFinish(outcome) ==
    IF outcome.k = "throw" THEN SseCatch(outcome.error)
    ELSE CallToolResult(FALSE, outcome.result, Undefined)

(***************************************************************************)
(* Requests a client may send.                                             *)
(***************************************************************************)
Names == ToolSet \cup {"no_such_tool"}

Props(name, v) ==
    CASE name = "libraryName" -> [NoProps EXCEPT !.libraryName = v]
      [] name = "query" -> [NoProps EXCEPT !.query = v]
      [] name = "url" -> [NoProps EXCEPT !.url = v]
      [] name = "urls" -> [NoProps EXCEPT !.urls = v]
      [] name = "queries" -> [NoProps EXCEPT !.queries = v]

AUrl == Str("https://a.io/x")
QueryItem(q, eng) == [t |-> "object", query |-> q, engine |-> eng]

ArgChoices(name) ==
    CASE name = "mcp__context7__resolve-library-id" ->
            {NoArguments, NoProps,
             Props("libraryName", Str("react")), Props("libraryName", Num(7))}
      [] name = "mcp__context7__get-library-docs" ->
            {NoProps}
              \cup {[NoProps EXCEPT !.context7CompatibleLibraryID = Str("/org/project"),
                                    !.tokens = tk] :
                      tk \in {Undefined, Num(0), Num(5000), Num(100), Str("5000")}}
              \cup {[NoProps EXCEPT !.context7CompatibleLibraryID = Str("/org/project"),
                                    !.topic = Str("hooks")]}
      [] name \in Range(PerplexityTools) ->
            {NoProps, Props("query", Str("q1")), Props("query", Str("q2")),
             Props("query", Num(1))}
      [] name = "mcp__brightdata__search_engine" ->
            {NoProps}
              \cup {[NoProps EXCEPT !.query = Str("q1"), !.engine = eng] :
                      eng \in {Undefined, Str("google"), Str("bing"), Str("duck")}}
      [] name = "mcp__brightdata__scrape_as_markdown" ->
            {NoProps, Props("url", AUrl), Props("url", Str("not a url"))}
      [] name = "mcp__brightdata__scrape_batch" ->
            {NoProps, Props("urls", AUrl), Props("urls", Arr(<<Str("not a url")>>))}
              \cup {Props("urls", Arr([i \in 1..n |-> AUrl])) : n \in 0..MaxItems}
      [] name = "mcp__brightdata__search_engine_batch" ->
            {NoProps}
              \cup {Props("queries", Arr(<<QueryItem(Str("q1"), eng)>>)) :
                      eng \in {Str("google"), Str("bing"), Str("duck")}}
              \cup {Props("queries", Arr([i \in 1..n |-> QueryItem(Str("q1"), Undefined)])) :
                      n \in 0..MaxItems}
      [] OTHER -> {NoArguments, NoProps, Props("query", Str("q1"))}

Endpoints == {"mcp", "context7", "perplexity", "brightdata"}

Inputs == UNION {{<<name, a>> : a \in ArgChoices(name)} : name \in Names}

\* the invocations sent to POST /mcp when several requests are in flight
\* together: two research queries and one documentation lookup
CoreInputs ==
    {<<"perplexity_search", Props("query", Str("q1"))>>,
     <<"perplexity_ask", Props("query", Str("q1"))>>,
     <<"mcp__context7__get-library-docs",
       [NoProps EXCEPT !.context7CompatibleLibraryID = Str("/org/project")]>>}

\* what the upstream answers to requests in flight together: a failure
\* status or a well-formed payload
CoreReplies ==
    {[status |-> "http500"],
     [status |-> "ok", data |-> ChatCompletion(Str("answer"))]}

RepliesNow == IF scenario = "single" THEN Replies ELSE CoreReplies

\* one request alone may carry any input to any endpoint; requests in
\* flight together carry the core inputs
InputsNow(ep) ==
    IF scenario = "single" THEN Inputs
    ELSE IF ep = "mcp" THEN CoreInputs
    ELSE {}

\* requests are numbered in the order they arrive
Admitted(r) ==
    /\ r > 1 => req[r - 1].pc # "idle"
    /\ scenario = "single" => r = 1

(***************************************************************************)
(* State.                                                                  *)
(***************************************************************************)
Idle ==
    [pc |-> "idle", ep |-> "none", tool |-> "", args |-> NoArguments, inst |-> 0,
     conn |-> "none", transport |-> "none", listener |-> FALSE,
     headersSent |-> FALSE, writes |-> 0, response |-> NoResponse,
     calls |-> 0, adapterRuns |-> 0, call |-> NoCall, reply |-> NoReply,
     logged |-> 0]

NoServer == [state |-> "none", invocations |-> 0, registry |-> <<>>]

Init ==
    /\ env \in SUBSET Credentials
    /\ scenario \in {"single", "concurrent"}
    \* requests in flight together send no web-data invocation: the
    \* web-data credential is left configured there
    /\ scenario = "concurrent" => BRIGHTDATA_API_TOKEN \in env
    /\ req = [r \in Requests |-> Idle]
    /\ servers = [i \in Requests |-> NoServer]

\* the server and the transport created once for the process and shared
SharedServer(srv) == 1

\* new McpServer(...): an object no other request holds
NewServer(srv) ==
    CHOOSE i \in DOMAIN srv :
        /\ srv[i].state = "none"
        /\ \A j \in DOMAIN srv : j < i => srv[j].state # "none"

\* a close listener that does not close the transport
OnCloseKeepsTransport(rq) == [rq EXCEPT !.conn = "closed"]

\* res.on('close', () => { transport.close(); })
OnClose(rq) ==
    IF rq.listener THEN [rq EXCEPT !.conn = "closed", !.transport = "closed"]
    ELSE [rq EXCEPT !.conn = "closed"]

\* a result slot shared by the requests: the first result is served to all
WriteShared(rq, resp) ==
    [rq EXCEPT !.response = IF \E q \in Requests : req[q].writes > 0
                            THEN req[CHOOSE q \in Requests : req[q].writes > 0].response
                            ELSE resp,
               !.writes = @ + 1, !.headersSent = TRUE]

\* the bytes of one response go out on res
Write(rq, resp) ==
    [rq EXCEPT !.response = resp, !.writes = @ + 1, !.headersSent = TRUE]

\* the transport sends the response of the invocation on the open
\* connection; on a closed transport the response is dropped
SendResponse(rq, resp) ==
    IF rq.transport = "open"
    THEN [Write(rq, resp) EXCEPT !.pc = "responded"]
    ELSE [rq EXCEPT !.pc = "abandoned"]

\* the catch block without the headersSent test
CatchBlockAlwaysWrites(rq) ==
    [Write(rq, ProtocolError(InternalError, "Internal server error"))
       EXCEPT !.pc = "caught", !.logged = @ + 1]

\* catch (error) { console.error(...); if (!res.headersSent) res.status(500).json(...) }
CatchBlock(rq) ==
    IF ~rq.headersSent
    THEN [Write(rq, ProtocolError(InternalError, "Internal server error"))
            EXCEPT !.pc = "caught", !.logged = @ + 1]
    ELSE [rq EXCEPT !.pc = "caught", !.logged = @ + 1]

(***************************************************************************)
(* The unified endpoint: app.post('/mcp').                                 *)
(***************************************************************************)
\* the entry path without res.on('close', ...)
PostMcpNoListener(r, name, a) ==
    /\ req[r].pc = "idle"
    /\ Admitted(r)
    /\ <<name, a>> \in InputsNow("mcp")
    /\ LET id == NewServer(servers) IN
         /\ servers' = [servers EXCEPT ![id] =
                          [state |-> "Built", invocations |-> 0,
                           registry |-> RegisteredTools]]
         /\ req' = [req EXCEPT ![r] =
                      [@ EXCEPT !.pc = "built", !.ep = "mcp", !.tool = name,
                                !.args = a, !.inst = id, !.conn = "open",
                                !.transport = "open"]]
    /\ UNCHANGED <<env, scenario>>

\* a request arrives: the server is built, the ten tools are registered,
\* the transport is created and the close listener is installed
PostMcp(r, name, a) ==
    /\ req[r].pc = "idle"
    /\ Admitted(r)
    /\ <<name, a>> \in InputsNow("mcp")
    /\ LET id == NewServer(servers) IN
         /\ servers' = [servers EXCEPT ![id] =
                          [state |-> "Built", invocations |-> 0,
                           registry |-> RegisteredTools]]
         /\ req' = [req EXCEPT ![r] =
                      [@ EXCEPT !.pc = "built", !.ep = "mcp", !.tool = name,
                                !.args = a, !.inst = id, !.conn = "open",
                                !.transport = "open", !.listener = TRUE]]
    /\ UNCHANGED <<env, scenario>>

\* a fault while the server is being built: no transport exists yet and no
\* close listener is installed; the catch block answers
BuildFault(r) ==
    /\ req[r].pc = "idle"
    /\ Admitted(r)
    /\ req' = [req EXCEPT ![r] =
                 CatchBlock([@ EXCEPT !.ep = "mcp", !.conn = "open"])]
    /\ UNCHANGED <<env, scenario, servers>>

\* server.connect(transport); transport.handleRequest(req, res, req.body):
\* the invocation is dispatched and the handler runs to its first await
HandleRequest(r) ==
    /\ req[r].pc = "built"
    /\ LET rq == req[r]
           d == Dispatch(rq.tool, rq.args, env)
           ran == [rq EXCEPT !.adapterRuns = IF d.ran THEN @ + 1 ELSE @]
       IN
         /\ servers' = [servers EXCEPT ![rq.inst] =
                          [@ EXCEPT !.state = IF d.step = "pending"
                                              THEN "Dispatching" ELSE "Responded",
                                    !.invocations = @ + 1]]
         /\ IF d.step = "pending"
            THEN req' = [req EXCEPT ![r] =
                           [ran EXCEPT !.pc = "awaiting", !.calls = @ + 1,
                                       !.call = d.call]]
            ELSE req' = [req EXCEPT ![r] = SendResponse(ran, d.response)]
    /\ UNCHANGED <<env, scenario>>

\* a fault in connect or handleRequest before the invocation is dispatched
HandleFault(r) ==
    /\ req[r].pc = "built"
    /\ req' = [req EXCEPT ![r] = CatchBlock(@)]
    /\ UNCHANGED <<env, scenario, servers>>

\* axios.post given a deadline: the handler resumes with a timeout error
\* although the upstream has not answered
UpstreamTimeout(r, rep) ==
    /\ req[r].pc = "awaiting"
    /\ req[r].ep = "mcp"
    /\ rep \in RepliesNow
    /\ LET rq == req[r]
           resp == Complete(rq.tool, Throw(AxiosError("timeout")))
       IN
         /\ req' = [req EXCEPT ![r] = SendResponse(rq, resp)]
         /\ servers' = [servers EXCEPT ![rq.inst].state =
                          IF rq.transport = "open" THEN "Responded" ELSE @]
    /\ UNCHANGED <<env, scenario>>

\* axios.post settles: the handler resumes and its result is sent
UpstreamReturn(r, rep) ==
    /\ req[r].pc = "awaiting"
    /\ req[r].ep = "mcp"
    /\ rep \in RepliesNow
    /\ LET rq == req[r]
           resp == Complete(rq.tool, HandlerResume(rq.tool, rep))
       IN
         /\ req' = [req EXCEPT ![r] =
                      SendResponse([rq EXCEPT !.reply = IF rq.transport = "open"
                                                        THEN rep ELSE @], resp)]
         /\ servers' = [servers EXCEPT ![rq.inst].state =
                          IF rq.transport = "open" THEN "Responded" ELSE @]
    /\ UNCHANGED <<env, scenario>>

\* a fault in handleRequest after the response went out
LateFault(r) ==
    /\ req[r].pc = "responded"
    /\ req[r].ep = "mcp"
    /\ req[r].conn = "open"
    /\ req' = [req EXCEPT ![r] = CatchBlock(@)]
    /\ UNCHANGED <<env, scenario, servers>>

\* the client goes away while the upstream call is in flight
ClientDisconnect(r) ==
    /\ req[r].pc = "awaiting"
    /\ req[r].ep = "mcp"
    /\ req[r].conn = "open"
    /\ req' = [req EXCEPT ![r] = OnClose(@)]
    /\ UNCHANGED <<env, scenario, servers>>

\* the response is complete: res emits 'close'
ResClose(r) ==
    /\ req[r].pc \in {"responded", "caught"}
    /\ req[r].ep = "mcp"
    /\ req[r].conn = "open"
    /\ req' = [req EXCEPT ![r] = OnClose(@)]
    /\ UNCHANGED <<env, scenario, servers>>

(***************************************************************************)
(* The SSE servers: one call of a CallToolRequestSchema handler.           *)
(***************************************************************************)
SseCallTool(r, ep, name, a) ==
    /\ req[r].pc = "idle"
    /\ ep \in Endpoints \ {"mcp"}
    /\ Admitted(r)
    /\ <<name, a>> \in InputsNow(ep)
    /\ LET o == SseStart(ep, name, a, env)
           rq == [req[r] EXCEPT !.ep = ep, !.tool = name, !.args = a,
                                !.adapterRuns = IF o.k = "throw" THEN @ ELSE @ + 1]
       IN
         IF o.k = "await"
         THEN req' = [req EXCEPT ![r] =
                        [rq EXCEPT !.pc = "awaiting", !.calls = @ + 1,
                                   !.call = o.call]]
         ELSE req' = [req EXCEPT ![r] =
                        [Write(rq, SseFinish(o)) EXCEPT !.pc = "responded"]]
    /\ UNCHANGED <<env, scenario, servers>>

SseUpstreamReturn(r, rep) ==
    /\ req[r].pc = "awaiting"
    /\ req[r].ep \in Endpoints \ {"mcp"}
    /\ rep \in Replies
    /\ req' = [req EXCEPT ![r] =
                 [Write([@ EXCEPT !.reply = rep], SseFinish(SseResume(@.ep, rep)))
                    EXCEPT !.pc = "responded"]]
    /\ UNCHANGED <<env, scenario, servers>>

Next ==
    \E r \in Requests :
        \/ \E in \in InputsNow("mcp") : PostMcp(r, in[1], in[2])
        \/ BuildFault(r)
        \/ HandleRequest(r)
        \/ HandleFault(r)
        \/ \E rep \in Replies : UpstreamReturn(r, rep)
        \/ LateFault(r)
        \/ ClientDisconnect(r)
        \/ ResClose(r)
        \/ \E ep \in Endpoints \ {"mcp"} : \E in \in InputsNow(ep) :
              SseCallTool(r, ep, in[1], in[2])
        \/ \E rep \in Replies : SseUpstreamReturn(r, rep)

Spec == Init /\ [][Next]_vars

\* Node emits 'close' on a response once it is complete
FairSpec == Spec /\ \A r \in Requests : WF_vars(ResClose(r))

\* the handler of app.post runs on from the built server to handleRequest
\* without waiting for anything, and every upstream call is answered
LiveSpec ==
    /\ Spec
    /\ \A r \in Requests :
          /\ WF_vars(HandleRequest(r))
          /\ WF_vars(\E rep \in Replies : UpstreamReturn(r, rep))

(***************************************************************************)
(* Observations on a request.                                              *)
(***************************************************************************)
\* the invocation of the request was delivered to its server
Dispatched(r) ==
    IF req[r].ep = "mcp"
    THEN req[r].inst # 0 /\ servers[req[r].inst].invocations > 0
    ELSE req[r].pc # "idle"

\* the response of the invocation went out
Answered(r) == Dispatched(r) /\ req[r].pc \in {"responded", "caught"}

\* the tools the endpoint of the request offers and the schema it states
Offered(r) == IF req[r].ep = "mcp" THEN ToolSet ELSE SseTools(req[r].ep)

Accepts(r) ==
    IF req[r].ep = "mcp" THEN InputSchema(req[r].tool, req[r].args)
    ELSE SseInputSchema(req[r].tool, req[r].args)

\* the credential the adapter of the request reads
CredentialRead(r) ==
    IF req[r].ep = "mcp" THEN CredentialOf(GroupOf(req[r].tool))
    ELSE CredentialOf(req[r].ep)

\* the adapter was reached and found its credential missing
CredentialMissing(r) ==
    /\ CredentialRead(r) \notin env
    /\ req[r].ep = "mcp" => (req[r].tool \in ToolSet /\ Accepts(r))

\* the upstream call failed in transport or came back with a non-2xx status
UpstreamFailed(r) == req[r].reply.status \in {"neterr", "http500"}

\* the upstream answered 2xx with a payload that lacks what the handler
\* reads (choices[0].message.content) or declares (libraries: an array)
PayloadMalformed(r) ==
    /\ req[r].reply.status = "ok"
    /\ \/ /\ req[r].tool \in Range(PerplexityTools)
          /\ ~HasChoices(req[r].reply.data)
       \/ /\ req[r].ep = "mcp"
          /\ req[r].tool = "mcp__context7__resolve-library-id"
          /\ ~IsArray(req[r].reply.data)

\* the failure message the response carries
FailureMessage(r) ==
    IF req[r].ep = "mcp" THEN req[r].response.content
    ELSE req[r].response.content.parts[2]

C1_WitnessSseCredential ==
    \E r \in Requests :
        /\ Answered(r)
        /\ req[r].ep = "perplexity"
        /\ CredentialMissing(r)
        /\ req[r].response.isError

C1_WitnessUpstream ==
    \E r \in Requests :
        /\ Answered(r)
        /\ UpstreamFailed(r)
        /\ req[r].response.isError

(***************************************************************************)
(* C2: the credential check short-circuits: for an invocation made while   *)
(* the credential of its provider group is absent, no upstream call is     *)
(* ever started.                                                           *)
(***************************************************************************)
C2_NoCallWithoutCredential ==
    \A r \in Requests :
        (req[r].pc # "idle" /\ req[r].tool # "" /\ CredentialRead(r) \notin env)
        =>
        /\ req[r].calls = 0
        /\ req[r].call = NoCall
        /\ req[r].pc # "awaiting"
        /\ req[r].reply = NoReply

C2_Witness ==
    \E r \in Requests :
        /\ Answered(r)
        /\ req[r].tool \in Offered(r)
        /\ Accepts(r)
        /\ CredentialRead(r) \notin env
        /\ req[r].calls = 0
        /\ req[r].response.kind = "result"

(***************************************************************************)
(* C3: invoking a tool name that is not in the registry yields a top-level *)
(* protocol error classified 'method not found', and no adapter is invoked *)
(* for that request, whatever the credentials are.                         *)
(***************************************************************************)
C3_UnknownToolIsMethodNotFound ==
    \A r \in Requests :
        (Answered(r) /\ req[r].tool \notin Offered(r))
        =>
        /\ req[r].response.kind = "error"
        /\ req[r].response.class = "method not found"
        /\ req[r].adapterRuns = 0
        /\ req[r].calls = 0

(***************************************************************************)
(* C4: on the unified endpoint, a batch tool called with an array of more  *)
(* than 10 items fails validation before any adapter or upstream work, and *)
(* an array of exactly 10 items passes validation and reaches the adapter. *)
(***************************************************************************)
BatchArray(r) ==
    IF req[r].tool = "mcp__brightdata__scrape_batch" THEN req[r].args.urls
    ELSE req[r].args.queries

C4_WitnessTen ==
    \E r \in Requests :
        /\ req[r].ep = "mcp"
        /\ req[r].tool = "mcp__brightdata__search_engine_batch"
        /\ Dispatched(r)
        /\ IsArray(req[r].args.queries)
        /\ Len(req[r].args.queries.items) = 10
        /\ req[r].adapterRuns = 1
        /\ ~req[r].response.isError

(***************************************************************************)
(* C5: dispatch is lookup, then validation, then adapter: an invocation    *)
(* whose arguments do not satisfy the input schema of the tool fails at    *)
(* once with an 'invalid params' classification and the adapter is never   *)
(* invoked; an adapter only runs on arguments that passed validation.      *)
(***************************************************************************)
C5_InvalidParamsBeforeAdapter ==
    \A r \in Requests :
        /\ (Answered(r) /\ req[r].tool \in Offered(r) /\ ~Accepts(r))
           =>
           /\ req[r].response.kind = "error"
           /\ req[r].response.class = "invalid params"
        /\ (req[r].adapterRuns > 0 \/ req[r].calls > 0) => Accepts(r)

(***************************************************************************)
(* C6: every Protocol Server Instance goes Built, Dispatching, Responded,  *)
(* each transition at most once: it is built fresh for one HTTP request,   *)
(* receives exactly one invocation and never a second one, and no instance *)
(* is used by another request.                                             *)
(***************************************************************************)
Rank(st) ==
    CASE st = "none" -> 0
      [] st = "Built" -> 1
      [] st = "Dispatching" -> 2
      [] st = "Responded" -> 3

InstanceOwned ==
    /\ \A r, q \in Requests :
          (r # q /\ req[r].inst # 0 /\ req[q].inst # 0) => req[r].inst # req[q].inst
    /\ \A i \in DOMAIN servers :
          /\ servers[i].invocations <= 1
          /\ servers[i].state \in {"none", "Built"} <=> servers[i].invocations = 0
          /\ servers[i].state # "none" => \E r \in Requests : req[r].inst = i

C6_InstanceLifecycle ==
    /\ []InstanceOwned
    /\ [][\A i \in DOMAIN servers :
             /\ Rank(servers'[i].state) >= Rank(servers[i].state)
             /\ Rank(servers'[i].state) <= Rank(servers[i].state) + 2
             /\ servers'[i].invocations >= servers[i].invocations]_vars

C6_Witness ==
    /\ \A r \in Requests :
          /\ req[r].ep = "mcp"
          /\ req[r].inst # 0
          /\ servers[req[r].inst].state = "Responded"
          /\ servers[req[r].inst].invocations = 1
    /\ \E r \in Requests : req[r].reply # NoReply

(***************************************************************************)
(* C7: at most one response is ever written for a request of the entry     *)
(* path: a fault before any response bytes produces one protocol error     *)
(* envelope with code -32603; a fault after response bytes were written is *)
(* logged and writes nothing more.                                         *)
(***************************************************************************)
C7_SingleResponse ==
    /\ [](\A r \in Requests :
            /\ req[r].writes <= 1
            /\ req[r].headersSent <=> req[r].writes = 1
            /\ (req[r].pc = "caught" /\ ~Dispatched(r)) =>
                  /\ req[r].writes = 1
                  /\ req[r].response.kind = "error"
                  /\ req[r].response.code = -32603)
    /\ [][\A r \in Requests :
             (req'[r].logged > req[r].logged) =>
                IF req[r].headersSent
                THEN /\ req'[r].writes = req[r].writes
                     /\ req'[r].response = req[r].response
                ELSE /\ req'[r].writes = 1
                     /\ req'[r].response.kind = "error"
                     /\ req'[r].response.code = -32603]_vars

C7_Witness ==
    \E r \in Requests :
        /\ req[r].pc = "caught"
        /\ Dispatched(r)
        /\ req[r].logged = 1
        /\ req[r].writes = 1
        /\ req[r].response.kind = "result"

C7_WitnessEarly ==
    \E r \in Requests :
        /\ req[r].pc = "caught"
        /\ req[r].inst # 0
        /\ ~Dispatched(r)
        /\ req[r].response.code = -32603

(***************************************************************************)
(* C8: on every exit path of a request (success, tool failure, protocol    *)
(* error, infrastructure fault, client disconnect) the instance and its    *)
(* transport are released once the HTTP response completes.                *)
(***************************************************************************)
Completed(r) ==
    /\ req[r].ep = "mcp"
    /\ req[r].writes > 0 \/ req[r].conn = "closed"

Released(r) == req[r].conn = "closed" /\ req[r].transport # "open"

\* C8: every request whose HTTP response has completed gets its instance and
\* transport released; completion and release are both final, so from some
\* point on every completed request is released.
C8_EventuallyReleased ==
    /\ []<>(\A r \in Requests : Completed(r) => Released(r))
    /\ [][\A r \in Requests :
             /\ Completed(r) => Completed(r)'
             /\ Released(r) => Released(r)']_vars

C8_Witness ==
    \E r \in Requests :
        /\ req[r].ep = "mcp"
        /\ req[r].pc = "responded"
        /\ req[r].response.kind = "error"
        /\ req[r].transport = "closed"
        /\ req[r].conn = "closed"

(***************************************************************************)
(* C9: if the inbound connection closes while the upstream call of the     *)
(* adapter is in flight, the instance is released and the result of the    *)
(* upstream call is discarded when it returns: no response is ever written *)
(* to the closed connection.                                               *)
(***************************************************************************)
C9_NoWriteAfterDisconnect ==
    /\ [](\A r \in Requests :
            (req[r].ep = "mcp" /\ req[r].conn = "closed"
               /\ req[r].pc \in {"awaiting", "abandoned"}) =>
                  /\ req[r].transport = "closed"
                  /\ req[r].writes = 0
                  /\ req[r].response = NoResponse)
    /\ [][\A r \in Requests :
             req[r].conn = "closed" =>
                /\ req'[r].writes = req[r].writes
                /\ req'[r].response = req[r].response]_vars

C9_Witness ==
    \E r \in Requests :
        /\ req[r].pc = "abandoned"
        /\ req[r].calls = 1
        /\ req[r].conn = "closed"
        /\ req[r].writes = 0

(***************************************************************************)
(* C10: concurrent requests are independent under every interleaving: they *)
(* share no mutable state, the result or failure of one is never           *)
(* observable in the response of the other, neither blocks the other, they *)
(* may complete in either order, and a failed request never changes the    *)
(* outcome of a concurrent or later request.                               *)
(***************************************************************************)
\* the response the request's own tool, arguments and upstream reply give
OwnResponse(r) ==
    LET rq == req[r] IN
    IF rq.ep = "mcp"
    THEN LET d == Dispatch(rq.tool, rq.args, env) IN
         IF d.step = "pending"
         THEN Complete(rq.tool, HandlerResume(rq.tool, rq.reply))
         ELSE d.response
    ELSE LET o == SseStart(rq.ep, rq.tool, rq.args, env) IN
         IF o.k = "await" THEN SseFinish(SseResume(rq.ep, rq.reply))
         ELSE SseFinish(o)

Independent ==
    \A r \in Requests :
        /\ Answered(r) => req[r].response = OwnResponse(r)
        /\ req[r].pc = "built" => ENABLED HandleRequest(r)
        /\ (req[r].pc = "awaiting" /\ req[r].ep = "mcp") =>
              \A rep \in RepliesNow : ENABLED UpstreamReturn(r, rep)

C10_Independence ==
    /\ []Independent
    /\ [][/\ \A r, q \in Requests :
                r # q => (req'[r] = req[r] \/ req'[q] = req[q])
          /\ \A i \in DOMAIN servers :
                servers'[i] # servers[i] =>
                   \E r \in Requests : req'[r].inst = i /\ req'[r] # req[r]
          /\ env' = env]_vars

\* the request that arrived second is answered, with a failure, while the
\* first still waits for its upstream call
C10_Witness ==
    \E r, q \in Requests :
        /\ r < q
        /\ req[r].pc = "awaiting" /\ req[r].conn = "open"
        /\ Answered(q)
        /\ req[q].calls = 1
        /\ req[q].response.isError

\* the first is then answered without a failure
C10_WitnessLater ==
    \E r, q \in Requests :
        /\ r < q
        /\ Answered(r) /\ Answered(q)
        /\ req[r].calls = 1 /\ req[q].calls = 1
        /\ req[q].response.isError
        /\ ~req[r].response.isError

(***************************************************************************)
(* C11: the registry of every Protocol Server Instance holds exactly 10    *)
(* tool descriptors with pairwise distinct names, partitioned into three   *)
(* non-overlapping groups of 2, 4 and 4, and every request builds the same *)
(* registry, so the tools listed are the same on every call.               *)
(***************************************************************************)
\* the tools/list answer of an instance: the names in its registry
ListTools(i) == Range(servers[i].registry)

\* the names of the registry whose handler reads the credential
GroupMembers(reg, cred) ==
    {j \in DOMAIN reg : CredentialOf(GroupOf(reg[j])) = cred}

C12_ExactlyOneUpstreamCall ==
    \A r \in Requests :
        /\ req[r].calls <= 1
        /\ (/\ Answered(r)
            /\ req[r].tool \in Offered(r)
            /\ Accepts(r)
            /\ CredentialRead(r) \in env)
           => req[r].calls = 1

(***************************************************************************)
(* C13: credentials are isolated per provider group: with one credential   *)
(* absent and the other two present, every tool of the other two groups    *)
(* still succeeds and only the tools of the group whose credential is      *)
(* absent fail.  The handler reads its credential when it runs, so the     *)
(* outcome follows the configuration in force at that moment and no other  *)
(* credential.                                                             *)
(***************************************************************************)
\* a valid invocation was answered and its upstream call, if there was
\* one, came back with a well-formed payload
ServedWell(r) ==
    /\ Answered(r)
    /\ req[r].tool \in Offered(r)
    /\ Accepts(r)
    /\ ~UpstreamFailed(r)
    /\ ~PayloadMalformed(r)

C13_CredentialIsolation ==
    \A r \in Requests :
        ServedWell(r) =>
            /\ req[r].response.kind = "result"
            /\ req[r].response.isError <=> CredentialRead(r) \notin env
            /\ req[r].response.isError =>
                  FailureMessage(r) = NotConfigured(CredentialRead(r))

\* with only the research credential absent, a research invocation fails
\* and a documentation invocation in flight with it succeeds
C13_Witness ==
    \E r, q \in Requests :
        /\ env = Credentials \ {PERPLEXITY_API_KEY}
        /\ ServedWell(r) /\ ServedWell(q)
        /\ GroupOf(req[r].tool) = "perplexity"
        /\ req[r].response.isError
        /\ GroupOf(req[q].tool) = "context7"
        /\ req[q].calls = 1
        /\ ~req[q].response.isError

\* with only the web-data credential absent, a web-data tool fails
C13_WitnessWebData ==
    \E r \in Requests :
        /\ env = Credentials \ {BRIGHTDATA_API_TOKEN}
        /\ ServedWell(r)
        /\ req[r].ep = "mcp"
        /\ GroupOf(req[r].tool) = "brightdata"
        /\ req[r].response.isError

(***************************************************************************)
(* C14: for the tools with a defaulted optional parameter (engine of       *)
(* mcp__brightdata__search_engine and of each item of                      *)
(* mcp__brightdata__search_engine_batch), a request that omits engine      *)
(* gives the adapter the same value, and the client the same result, as a  *)
(* request that supplies 'google' explicitly.                              *)
(***************************************************************************)
EngineTools == {"mcp__brightdata__search_engine", "mcp__brightdata__search_engine_batch"}

Google == Str("google")

\* the arguments with every omitted engine written out as 'google'
WrittenOut(engine) == IF IsUndefined(engine) THEN Google ELSE engine

ExplicitEngine(name, a) ==
    IF name = "mcp__brightdata__search_engine"
    THEN [a EXCEPT !.engine = WrittenOut(a.engine)]
    ELSE LET qs == a.queries.items IN
         [a EXCEPT !.queries =
            Arr([i \in DOMAIN qs |->
                   QueryItem(qs[i].query, WrittenOut(qs[i].engine))])]

\* the engine the adapter used for item i, read off its output
EngineUsed(r, i) ==
    LET out == req[r].response.structuredContent.val.items IN
    IF req[r].tool = "mcp__brightdata__search_engine" THEN out[1].parts[2]
    ELSE out[i].engine

\* the engine the request supplied for item i
EngineSupplied(r, i) ==
    IF req[r].tool = "mcp__brightdata__search_engine" THEN req[r].args.engine
    ELSE req[r].args.queries.items[i].engine

EngineItems(r) ==
    IF req[r].tool = "mcp__brightdata__search_engine" THEN {1}
    ELSE DOMAIN req[r].args.queries.items

C14_WitnessSearch ==
    \E r \in Requests :
        /\ req[r].ep = "mcp"
        /\ req[r].tool = "mcp__brightdata__search_engine"
        /\ Answered(r)
        /\ Accepts(r)
        /\ IsUndefined(req[r].args.engine)
        /\ ~req[r].response.isError
        /\ EngineUsed(r, 1) = Google

(***************************************************************************)
(* C15: every successful tool result carries both a structured object and  *)
(* a textual content entry, and the text is the serialization of that same *)
(* structured object.                                                      *)
(***************************************************************************)
Successful(r) ==
    /\ Answered(r)
    /\ req[r].response.kind = "result"
    /\ ~req[r].response.isError

C15_TextSerializesStructured ==
    \A r \in Requests :
        Successful(r) =>
            /\ req[r].response.structuredContent.t = "object"
            /\ req[r].response.content.t = "string"
            /\ \E indent \in {0, 2} :
                  req[r].response.content =
                     Stringify(req[r].response.structuredContent, indent)

\* the same statement on the unified endpoint alone
C15_OnUnifiedEndpoint ==
    \A r \in Requests :
        (Successful(r) /\ req[r].ep = "mcp") =>
            /\ req[r].response.structuredContent.t = "object"
            /\ \E indent \in {0, 2} :
                  req[r].response.content =
                     Stringify(req[r].response.structuredContent, indent)

(***************************************************************************)
(* C16: the upstream call of a research invocation carries the model the   *)
(* static mapping gives its tool name (perplexity_search: sonar,           *)
(* perplexity_ask: sonar-pro, perplexity_research: sonar-deep-research,    *)
(* perplexity_reason: sonar-reasoning-pro); under any interleaving of      *)
(* concurrent research invocations none sends the model of another tool,   *)
(* and the call of an invocation, once made, is never altered.             *)
(***************************************************************************)
ModelFor(name) ==
    CASE name = "perplexity_search" -> "sonar"
      [] name = "perplexity_ask" -> "sonar-pro"
      [] name = "perplexity_research" -> "sonar-deep-research"
      [] name = "perplexity_reason" -> "sonar-reasoning-pro"

ResearchCall(r) ==
    /\ req[r].tool \in {"perplexity_search", "perplexity_ask",
                        "perplexity_research", "perplexity_reason"}
    /\ req[r].ep \in {"mcp", "perplexity"}
    /\ req[r].calls > 0

C16_ModelOfTool ==
    /\ [](\A r \in Requests :
            ResearchCall(r) =>
               /\ req[r].call.url = "https://api.perplexity.ai/chat/completions"
               /\ req[r].call.body.model = ModelFor(req[r].tool)
               /\ req[r].call.body.content = req[r].args.query)
    /\ [][\A r \in Requests :
             req[r].call # NoCall => req'[r].call = req[r].call]_vars

\* two research invocations of different tools in flight together, each
\* with its own model
C16_Witness ==
    \E r, q \in Requests :
        /\ r # q
        /\ ResearchCall(r) /\ ResearchCall(q)
        /\ req[r].pc = "awaiting" /\ req[q].pc = "awaiting"
        /\ req[r].tool # req[q].tool
        /\ req[r].call.body.model = "sonar"
        /\ req[q].call.body.model = "sonar-pro"

\* a research invocation on the SSE server with the model of its tool
C16_WitnessSse ==
    \E r \in Requests :
        /\ ResearchCall(r)
        /\ req[r].ep = "perplexity"
        /\ req[r].tool = "perplexity_research"
        /\ req[r].call.body.model = "sonar-deep-research"

(***************************************************************************)
(* C17: every request of the entry path whose connection stays open and    *)
(* whose upstream call (if any) eventually returns eventually receives     *)
(* exactly one response.  No timeout is enforced: a request leaves the     *)
(* wait for its upstream call only when that call returns, so a request    *)
(* whose upstream call never returns is never answered.                    *)
(***************************************************************************)
\* the request waits for its upstream call
Waiting(r) ==
    /\ req[r].ep = "mcp"
    /\ req[r].pc = "awaiting"

\* the client closed the connection before the request was answered
ClientGone(r) ==
    /\ req[r].ep = "mcp"
    /\ req[r].pc \in {"awaiting", "abandoned"}
    /\ req[r].conn = "closed"

C17_EventuallyOneResponse ==
    /\ []<>(\A r \in Requests :
              (req[r].ep = "mcp" /\ ~ClientGone(r)) => req[r].writes = 1)
    /\ [](\A r \in Requests : Waiting(r) => req[r].writes = 0)
    /\ [][\A r \in Requests :
             /\ req[r].writes = 1 => req'[r].writes = 1
             /\ (Waiting(r) /\ ~Waiting(r)') =>
                   \/ /\ req'[r].pc = "responded"
                      /\ req[r].reply = NoReply
                      /\ req'[r].reply \in Replies
                   \/ /\ req'[r].pc = "abandoned"
                      /\ req[r].conn = "closed"]_vars

\* a request that waited for its upstream call was answered once the call
\* returned
C17_Witness ==
    \E r \in Requests :
        /\ req[r].ep = "mcp"
        /\ req[r].pc = "responded"
        /\ req[r].conn = "open"
        /\ req[r].calls = 1
        /\ req[r].reply \in Replies
        /\ req[r].writes = 1

(***************************************************************************)
(* C18: in the SSE servers the credential check comes before the tool-name *)
(* check and the web-data handler has no tool-name check: with the         *)
(* credential absent an unknown tool name reports the missing credential,  *)
(* not an unknown tool; with the credential present the SSE web-data       *)
(* handler returns a non-error result for any tool name.                   *)
(***************************************************************************)
OnSse(r) == req[r].ep \in Endpoints \ {"mcp"} /\ Answered(r)

C18_SseCredentialBeforeName ==
    \A r \in Requests :
        OnSse(r) =>
            /\ req[r].response.kind = "result"
            /\ CredentialRead(r) \notin env =>
                  /\ req[r].response.isError
                  /\ FailureMessage(r) = NotConfigured(CredentialRead(r))
            /\ (req[r].ep = "brightdata" /\ BRIGHTDATA_API_TOKEN \in env) =>
                  ~req[r].response.isError
            /\ (req[r].ep # "brightdata" /\ CredentialRead(r) \in env
                   /\ req[r].tool \notin Offered(r)) =>
                  /\ req[r].response.isError
                  /\ FailureMessage(r) = UnknownTool(req[r].tool)

\* an unregistered name sent to the SSE web-data server with the credential
\* present is answered without an error
C18_Witness ==
    \E r \in Requests :
        /\ OnSse(r)
        /\ req[r].ep = "brightdata"
        /\ req[r].tool = "no_such_tool"
        /\ BRIGHTDATA_API_TOKEN \in env
        /\ ~req[r].response.isError

\* an unregistered name sent to the SSE research server with the credential
\* absent reports the credential
C18_WitnessCredentialFirst ==
    \E r \in Requests :
        /\ OnSse(r)
        /\ req[r].ep = "perplexity"
        /\ req[r].tool = "no_such_tool"
        /\ PERPLEXITY_API_KEY \notin env
        /\ FailureMessage(r) = NotConfigured(PERPLEXITY_API_KEY)

(***************************************************************************)
(* C19: the documentation-fetch adapter sends a token budget of 5000 when  *)
(* the tokens argument is omitted or is 0, and sends the supplied value    *)
(* unchanged for every other number; omitting tokens, supplying 0 and      *)
(* supplying 5000 give the same upstream call.                             *)
(***************************************************************************)
DocsCall(r) ==
    /\ req[r].tool = "mcp__context7__get-library-docs"
    /\ req[r].ep \in {"mcp", "context7"}
    /\ req[r].calls = 1

\* the call the adapter makes for the request when tokens is 5000
CallWithBudget5000(r) ==
    [url |-> "https://context7.upstash.io/api/v1/docs",
     body |-> [libraryId |-> req[r].args.context7CompatibleLibraryID,
               topic |-> req[r].args.topic,
               maxTokens |-> Num(5000)],
     bearer |-> CONTEXT7_API_KEY]

C19_TokenBudget ==
    \A r \in Requests :
        DocsCall(r) =>
            LET tk == req[r].args.tokens IN
            /\ (IsUndefined(tk) \/ tk = Num(0) \/ tk = Num(5000)) =>
                  req[r].call = CallWithBudget5000(r)
            /\ (IsNumber(tk) /\ tk # Num(0)) =>
                  req[r].call.body.maxTokens = tk

C19_Witness ==
    \E r \in Requests :
        /\ DocsCall(r)
        /\ req[r].args.tokens = Num(0)
        /\ req[r].call.body.maxTokens = Num(5000)

\* another number goes out as supplied
C19_WitnessOther ==
    \E r \in Requests :
        /\ DocsCall(r)
        /\ req[r].ep = "context7"
        /\ req[r].args.tokens = Num(100)
        /\ req[r].call.body.maxTokens = Num(100)

====
